---- MODULE Spec2Model ----
(***************************************************************************)
(* RealEstateGame (src/Game.py): a board of 25 spaces, players that move   *)
(* around it, buy unowned spaces, pay rent and are eliminated.             *)
(*                                                                         *)
(* Encoding of Python values.                                              *)
(*   - Python's None is the string None_ ("<None>"); no player has that    *)
(*     name.                                                               *)
(*   - A space name and a player location are either the string 'GO' or an *)
(*     integer 1..24 (0 after a wraparound).  TLC cannot compare a string  *)
(*     with an integer, so the string 'GO' in these two fields is the      *)
(*     reserved value GO_NAME (-1), which no movement with                 *)
(*     spaces_to_move >= 0 produces.  Player names stay strings; a player  *)
(*     may be named "GO".                                                  *)
(*   - self._game_board is a Python list indexed from 0; here it is a      *)
(*     sequence indexed from 1, so Python's game_board[i][i] is            *)
(*     SpaceAt(gb, i) == gb[i + 1].                                        *)
(*   - self._players is a dict (insertion ordered): `players` is the       *)
(*     mapping and `order` the sequence of its keys in insertion order.    *)
(* The initial state is the game after RealEstateGame(): no space and no   *)
(* player.  A call with an unregistered name raises KeyError before it     *)
(* reads or writes anything else and is not a step of the model; every     *)
(* other call is a step, also when it raises.                              *)
(***************************************************************************)
EXTENDS Integers, Sequences, FiniteSets, TLC

VARIABLES
    game_board,   \* RealEstateGame._game_board
    players,      \* RealEstateGame._players: name -> Player fields
    order,        \* insertion order of the keys of _players
    last,         \* the call just made: its arguments, result and path
    calls,        \* number of calls made so far
    direct,       \* number of direct calls of movement, pass_go, pay_rent
                  \* and lose_game made so far
    limit         \* number of calls the behaviour may make

vars == <<game_board, players, order, last, calls, direct, limit>>

----------------------------------------------------------------------------
(* Bounds of the model *)

MaxCalls == 7        \* calls per behaviour of Spec and Spec3

MaxCallsElim == 8    \* calls per behaviour of SpecElim

MaxDirect == 1       \* of them, direct calls of move_player's and pay_rent's steps

MaxBoards == 2       \* create_spaces calls per behaviour

(* Inputs *)

Names == {"A", "GO"}

StartBalances == {0, 1, 11}

RentCycle(k) == [i \in 1..24 |-> ((i - 1) % k) + 1]

RentLists == {RentCycle(2)}

GoMoneys == {2}

Moves == {0, 1, 2, 24, 50}

Names3 == {"A", "B", "C"}

StartBalances3 == {0, 1, 6}

Moves3 == {1}

NamesElim == {"A", "B"}

StartBalancesElim == {11}

MovesElim == {1, 2, 3}

----------------------------------------------------------------------------
(* Python values *)

None_ == "<None>"

GO_NAME == -1

Range(s) == {s[i] : i \in DOMAIN s}

Min(a, b) == IF a < b THEN a ELSE b

----------------------------------------------------------------------------
(* class GameSpace *)

GameSpace(game_space_name, rent) ==
    [name |-> game_space_name,
     rent |-> rent,
     purchase_price |-> rent * 5,
     owner |-> None_]

SpaceAt(gb, i) == gb[i + 1]

(* class Player *)

Player(player_name, starting_account_balance) ==
    [name |-> player_name,
     balance |-> starting_account_balance,
     location |-> GO_NAME,
     owned |-> <<>>]

get_location(pl) == IF pl.location = GO_NAME THEN 0 ELSE pl.location

deposit(ps, p, amount) == [ps EXCEPT ![p].balance = @ + amount]

withdraw(ps, p, amount) == [ps EXCEPT ![p].balance = @ - amount]

set_location(ps, p, game_space_name) ==
    [ps EXCEPT ![p].location = game_space_name]

buy_game_space(ps, p, game_space_name) ==
    [ps EXCEPT ![p].owned = Append(@, game_space_name)]

clear_owned_game_spaces(ps, p) == [ps EXCEPT ![p].owned = <<>>]

----------------------------------------------------------------------------
(* class RealEstateGame.  The methods below work on a record g that holds  *)
(* the two attributes (players, game_board) and the path taken by the call *)
(* in progress: go = number of pass_go calls, paid = the amount handed to  *)
(* withdraw by pay_rent (-1: no withdrawal), lost = lose_game was called,  *)
(* released = number of iterations of lose_game's loop, raised = the       *)
(* exception that ended the call ("" when it returned).                    *)

Game(ps, gb) ==
    [players |-> ps, game_board |-> gb,
     go |-> 0, paid |-> -1, lost |-> FALSE, released |-> 0, raised |-> ""]

(* The key of a board entry {0: GameSpace('GO', ..)} or {num: GameSpace(num, ..)} *)
Key(space) == IF space.name = GO_NAME THEN 0 ELSE space.name

(* The exception of self._game_board[i][i] ("" when the lookup succeeds) *)
Lookup(gb, i) ==
    IF i >= Len(gb) THEN "IndexError"
    ELSE IF Key(gb[i + 1]) # i THEN "KeyError"
    ELSE ""

create_spaces(gb, go_money, rent_list) ==
    gb \o <<GameSpace(GO_NAME, go_money)>> \o
    [num \in 1..Min(24, Len(rent_list)) |-> GameSpace(num, rent_list[num])]

(* create_player that replaces the player registered under the name *)
create_player_overwrite(ps, ord, player_name, starting_account_balance) ==
    IF player_name \in DOMAIN ps
    THEN [players |-> [ps EXCEPT ![player_name] =
                          Player(player_name, starting_account_balance)],
          order |-> ord]
    ELSE [players |-> ps @@
              (player_name :> Player(player_name, starting_account_balance)),
          order |-> Append(ord, player_name)]

create_player(ps, ord, player_name, starting_account_balance) ==
    IF player_name \in DOMAIN ps
    THEN [players |-> ps, order |-> ord]
    ELSE [players |-> ps @@
              (player_name :> Player(player_name, starting_account_balance)),
          order |-> Append(ord, player_name)]

get_player_account_balance(g, p) == g.players[p].balance

get_player_current_position(g, p) == get_location(g.players[p])

(* buy_space with the price test written < (a balance equal to the price buys) *)
buy_space_lt(g, p) ==
    LET player_acct_bal == g.players[p].balance
        loc == get_location(g.players[p])
        current_space == SpaceAt(g.game_board, loc)
    IN  IF Lookup(g.game_board, loc) # ""
        THEN [g |-> [g EXCEPT !.raised = Lookup(g.game_board, loc)],
              ret |-> FALSE]
        ELSE IF \/ player_acct_bal = 0
                \/ current_space.owner # None_
                \/ current_space.name = GO_NAME
                \/ player_acct_bal < current_space.purchase_price
        THEN [g |-> g, ret |-> FALSE]
        ELSE [g |-> [g EXCEPT
                       !.players = buy_game_space(
                           withdraw(g.players, p, current_space.purchase_price),
                           p, current_space.name),
                       !.game_board[loc + 1].owner = p],
              ret |-> TRUE]

(* buy_space that pays the price before it tests the preconditions *)
buy_space_early_withdraw(g, p) ==
    LET player_acct_bal == g.players[p].balance
        loc == get_location(g.players[p])
        current_space == SpaceAt(g.game_board, loc)
        paid == [g EXCEPT !.players =
                     withdraw(g.players, p, current_space.purchase_price)]
    IN  IF Lookup(g.game_board, loc) # ""
        THEN [g |-> [g EXCEPT !.raised = Lookup(g.game_board, loc)],
              ret |-> FALSE]
        ELSE IF \/ player_acct_bal = 0
                \/ current_space.owner # None_
                \/ current_space.name = GO_NAME
                \/ player_acct_bal <= current_space.purchase_price
        THEN [g |-> paid, ret |-> FALSE]
        ELSE [g |-> [paid EXCEPT
                       !.players = buy_game_space(paid.players, p,
                                                  current_space.name),
                       !.game_board[loc + 1].owner = p],
              ret |-> TRUE]

(* buy_space without the test for the GO space *)
buy_space_any_space(g, p) ==
    LET player_acct_bal == g.players[p].balance
        loc == get_location(g.players[p])
        current_space == SpaceAt(g.game_board, loc)
    IN  IF Lookup(g.game_board, loc) # ""
        THEN [g |-> [g EXCEPT !.raised = Lookup(g.game_board, loc)],
              ret |-> FALSE]
        ELSE IF \/ player_acct_bal = 0
                \/ current_space.owner # None_
                \/ player_acct_bal <= current_space.purchase_price
        THEN [g |-> g, ret |-> FALSE]
        ELSE [g |-> [g EXCEPT
                       !.players = buy_game_space(
                           withdraw(g.players, p, current_space.purchase_price),
                           p, current_space.name),
                       !.game_board[loc + 1].owner = p],
              ret |-> TRUE]

(* buy_space that sets the owner and forgets the player's owned list *)
buy_space_no_record(g, p) ==
    LET player_acct_bal == g.players[p].balance
        loc == get_location(g.players[p])
        current_space == SpaceAt(g.game_board, loc)
    IN  IF Lookup(g.game_board, loc) # ""
        THEN [g |-> [g EXCEPT !.raised = Lookup(g.game_board, loc)],
              ret |-> FALSE]
        ELSE IF \/ player_acct_bal = 0
                \/ current_space.owner # None_
                \/ current_space.name = GO_NAME
                \/ player_acct_bal <= current_space.purchase_price
        THEN [g |-> g, ret |-> FALSE]
        ELSE [g |-> [g EXCEPT
                       !.players = withdraw(g.players, p,
                                            current_space.purchase_price),
                       !.game_board[loc + 1].owner = p],
              ret |-> TRUE]

buy_space(g, p) ==
    LET player_acct_bal == g.players[p].balance
        loc == get_location(g.players[p])
        current_space == SpaceAt(g.game_board, loc)
        current_space_owner == current_space.owner
        purchase_price == current_space.purchase_price
        space_name == current_space.name
    IN  IF Lookup(g.game_board, loc) # ""
        THEN [g |-> [g EXCEPT !.raised = Lookup(g.game_board, loc)],
              ret |-> FALSE]
        ELSE IF \/ get_player_account_balance(g, p) = 0
                \/ current_space_owner # None_
                \/ space_name = GO_NAME
                \/ player_acct_bal <= purchase_price
        THEN [g |-> g, ret |-> FALSE]
        ELSE [g |-> [g EXCEPT
                       !.players = buy_game_space(
                                      withdraw(g.players, p, purchase_price),
                                      p, space_name),
                       !.game_board[loc + 1].owner = p],
              ret |-> TRUE]

pass_go(g, p) ==
    IF Lookup(g.game_board, 0) # ""
    THEN [g EXCEPT !.raised = Lookup(g.game_board, 0)]
    ELSE LET go_price == SpaceAt(g.game_board, 0).rent
         IN  [g EXCEPT !.players = deposit(g.players, p, go_price),
                       !.go = @ + 1]

(* movement that credits GO and forgets to reduce the index modulo the board *)
movement_no_wrap(g, p, spaces_to_move) ==
    LET move == get_location(g.players[p]) + spaces_to_move
    IN  IF move < Len(g.game_board) - 1
        THEN [g EXCEPT !.players = set_location(g.players, p, move)]
        ELSE IF Len(g.game_board) = 0
        THEN [g EXCEPT !.raised = "ZeroDivisionError"]
        ELSE pass_go([g EXCEPT !.players = set_location(g.players, p, move)],
                     p)

(* movement that wraps only from len(board) on (index 24 reached without GO) *)
movement_lt_len(g, p, spaces_to_move) ==
    LET move == get_location(g.players[p]) + spaces_to_move
    IN  IF move < Len(g.game_board)
        THEN [g EXCEPT !.players = set_location(g.players, p, move)]
        ELSE IF Len(g.game_board) = 0
        THEN [g EXCEPT !.raised = "ZeroDivisionError"]
        ELSE pass_go([g EXCEPT !.players =
                         set_location(g.players, p, move % Len(g.game_board))],
                     p)

movement(g, p, spaces_to_move) ==
    LET player_location == get_location(g.players[p])
        move == player_location + spaces_to_move
    IN  IF move < Len(g.game_board) - 1
        THEN [g EXCEPT !.players = set_location(g.players, p, move)]
        ELSE IF Len(g.game_board) = 0
        THEN [g EXCEPT !.raised = "ZeroDivisionError"]
        ELSE LET new_location == move % Len(g.game_board)
             IN  pass_go([g EXCEPT !.players =
                                 set_location(g.players, p, new_location)], p)

(* lose_game that clears the owner of every space of the board *)
lose_game_release_all(g, p) ==
    [g EXCEPT
       !.game_board = [i \in DOMAIN g.game_board |->
                         [g.game_board[i] EXCEPT !.owner = None_]],
       !.players = clear_owned_game_spaces(g.players, p),
       !.lost = TRUE,
       !.released = Len(g.players[p].owned)]

(* The loop of lose_game from its k-th iteration on *)
RECURSIVE lose_game_loop(_, _, _)
lose_game_loop(gb, owned_spaces, k) ==
    IF k > Len(owned_spaces)
    THEN gb
    ELSE lose_game_loop([gb EXCEPT ![owned_spaces[k] + 1].owner = None_],
                        owned_spaces, k + 1)

lose_game(g, p) ==
    LET owned_spaces == g.players[p].owned
    IN  [g EXCEPT
           !.game_board = lose_game_loop(g.game_board, owned_spaces, 1),
           !.players = clear_owned_game_spaces(g.players, p),
           !.lost = TRUE,
           !.released = Len(owned_spaces)]

(* pay_rent that does not call lose_game after the payer paid everything *)
pay_rent_no_lose_game(g, p) ==
    LET bal == get_player_account_balance(g, p)
        pos == get_player_current_position(g, p)
        location_obj == SpaceAt(g.game_board, pos)
        rent == location_obj.rent
        owner == location_obj.owner
    IN  IF Lookup(g.game_board, pos) # ""
        THEN [g EXCEPT !.raised = Lookup(g.game_board, pos)]
        ELSE IF owner = None_ \/ owner = "GO"
        THEN g
        ELSE IF rent < bal
             THEN [g EXCEPT !.players = deposit(withdraw(g.players, p, rent),
                                                owner, rent),
                            !.paid = rent]
             ELSE [g EXCEPT !.players =
                              deposit(withdraw(g.players, p, bal), owner, bal),
                            !.paid = bal]

(* pay_rent that always withdraws the full rent *)
pay_rent_full(g, p) ==
    LET bal == get_player_account_balance(g, p)
        pos == get_player_current_position(g, p)
        location_obj == SpaceAt(g.game_board, pos)
        rent == location_obj.rent
        owner == location_obj.owner
    IN  IF Lookup(g.game_board, pos) # ""
        THEN [g EXCEPT !.raised = Lookup(g.game_board, pos)]
        ELSE IF owner = None_ \/ owner = "GO"
        THEN g
        ELSE IF rent < bal
             THEN [g EXCEPT !.players = deposit(withdraw(g.players, p, rent),
                                                owner, rent),
                            !.paid = rent]
             ELSE lose_game([g EXCEPT !.players =
                                 deposit(withdraw(g.players, p, rent), owner, rent),
                               !.paid = rent], p)

(* pay_rent whose owner receives the full rent from a payer who is short *)
pay_rent_deposit_rent(g, p) ==
    LET bal == get_player_account_balance(g, p)
        pos == get_player_current_position(g, p)
        location_obj == SpaceAt(g.game_board, pos)
        rent == location_obj.rent
        owner == location_obj.owner
    IN  IF Lookup(g.game_board, pos) # ""
        THEN [g EXCEPT !.raised = Lookup(g.game_board, pos)]
        ELSE IF owner = None_ \/ owner = "GO"
        THEN g
        ELSE IF rent < bal
             THEN [g EXCEPT !.players = deposit(withdraw(g.players, p, rent),
                                                owner, rent),
                            !.paid = rent]
             ELSE lose_game([g EXCEPT !.players =
                                 deposit(withdraw(g.players, p, bal), owner, rent),
                               !.paid = bal], p)

pay_rent(g, p) ==
    LET bal == get_player_account_balance(g, p)
        pos == get_player_current_position(g, p)
        location_obj == SpaceAt(g.game_board, pos)
        rent == location_obj.rent
        owner == location_obj.owner
    IN  IF Lookup(g.game_board, pos) # ""
        THEN [g EXCEPT !.raised = Lookup(g.game_board, pos)]
        ELSE IF owner = None_ \/ owner = "GO"
        THEN g
        ELSE IF rent < bal
             THEN [g EXCEPT !.players = deposit(withdraw(g.players, p, rent),
                                                owner, rent),
                            !.paid = rent]
             ELSE lose_game([g EXCEPT !.players =
                                 deposit(withdraw(g.players, p, bal), owner, bal),
                               !.paid = bal], p)

(* The rest of move_player once movement returned or raised *)
then_pay_rent(m, p) == IF m.raised # "" THEN m ELSE pay_rent(m, p)

move_player(g, p, spaces_to_move) ==
    IF get_player_account_balance(g, p) = 0
    THEN g
    ELSE then_pay_rent(movement(g, p, spaces_to_move), p)

RECURSIVE check_game_over_loop(_, _, _, _, _)
check_game_over_loop(ps, ord, i, counter, winner) ==
    IF i > Len(ord)
    THEN IF counter = 1 THEN winner ELSE ""
    ELSE IF ps[ord[i]].balance = 0
         THEN check_game_over_loop(ps, ord, i + 1, counter + 1, winner)
         ELSE check_game_over_loop(ps, ord, i + 1, counter, ps[ord[i]].name)

check_game_over(ps, ord) == check_game_over_loop(ps, ord, 1, 0, None_)

----------------------------------------------------------------------------
(* The state machine: one action per method of RealEstateGame that changes *)
(* the game or returns a result.  A call that raises after it changed the  *)
(* state (move_player whose pay_rent fails) is a step like any other, with *)
(* the exception in last.raised.  last.n is the spaces_to_move of a move   *)
(* and the starting balance of the player a create_player call registered  *)
(* (0 when the name was in use and nobody was registered).                 *)

Call(op, name, n, ret, winner, g) ==
    [op |-> op, name |-> name, n |-> n, ret |-> ret, winner |-> winner,
     go |-> g.go, paid |-> g.paid, lost |-> g.lost, released |-> g.released,
     raised |-> g.raised]

Init ==
    /\ game_board = <<>>
    /\ players = <<>>
    /\ order = <<>>
    /\ calls = 0
    /\ direct = 0
    /\ limit = MaxCalls
    /\ last = Call("__init__", None_, 0, FALSE, "", Game(<<>>, <<>>))

CreateSpaces(go_money, rent_list) ==
    /\ calls < limit
    /\ Len(game_board) < MaxBoards * (1 + Len(rent_list))
    /\ game_board' = create_spaces(game_board, go_money, rent_list)
    /\ last' = Call("create_spaces", None_, 0, FALSE, "",
                    Game(players, game_board))
    /\ calls' = calls + 1
    /\ UNCHANGED <<players, order, direct, limit>>

CreatePlayer(player_name, starting_account_balance) ==
    /\ calls < limit
    /\ LET r == create_player(players, order, player_name,
                               starting_account_balance)
       IN  /\ players' = r.players
           /\ order' = r.order
    /\ last' = Call("create_player", player_name,
                    IF player_name \in DOMAIN players
                    THEN 0 ELSE starting_account_balance,
                    FALSE, "", Game(players, game_board))
    /\ calls' = calls + 1
    /\ UNCHANGED <<game_board, direct, limit>>

BuySpace(player_name) ==
    /\ calls < limit
    /\ player_name \in DOMAIN players
    /\ LET r == buy_space(Game(players, game_board), player_name)
       IN  /\ players' = r.g.players
           /\ game_board' = r.g.game_board
           /\ last' = Call("buy_space", player_name, 0, r.ret, "", r.g)
    /\ calls' = calls + 1
    /\ UNCHANGED <<order, direct, limit>>

MovePlayer(player_name, spaces_to_move) ==
    /\ calls < limit
    /\ player_name \in DOMAIN players
    /\ LET g == move_player(Game(players, game_board), player_name,
                            spaces_to_move)
       IN  /\ players' = g.players
           /\ game_board' = g.game_board
           /\ last' = Call("move_player", player_name, spaces_to_move,
                           FALSE, "", g)
    /\ calls' = calls + 1
    /\ UNCHANGED <<order, direct, limit>>

(* movement, pass_go, pay_rent and lose_game called by the caller itself *)

Movement(player_name, spaces_to_move) ==
    /\ calls < limit
    /\ direct < MaxDirect
    /\ player_name \in DOMAIN players
    /\ LET g == movement(Game(players, game_board), player_name,
                         spaces_to_move)
       IN  /\ players' = g.players
           /\ game_board' = g.game_board
           /\ last' = Call("movement", player_name, spaces_to_move,
                           FALSE, "", g)
    /\ calls' = calls + 1
    /\ direct' = direct + 1
    /\ UNCHANGED <<order, limit>>

PassGo(player_name) ==
    /\ calls < limit
    /\ direct < MaxDirect
    /\ player_name \in DOMAIN players
    /\ LET g == pass_go(Game(players, game_board), player_name)
       IN  /\ players' = g.players
           /\ game_board' = g.game_board
           /\ last' = Call("pass_go", player_name, 0, FALSE, "", g)
    /\ calls' = calls + 1
    /\ direct' = direct + 1
    /\ UNCHANGED <<order, limit>>

PayRent(player_name) ==
    /\ calls < limit
    /\ direct < MaxDirect
    /\ player_name \in DOMAIN players
    /\ LET g == pay_rent(Game(players, game_board), player_name)
       IN  /\ players' = g.players
           /\ game_board' = g.game_board
           /\ last' = Call("pay_rent", player_name, 0, FALSE, "", g)
    /\ calls' = calls + 1
    /\ direct' = direct + 1
    /\ UNCHANGED <<order, limit>>

LoseGame(player_name) ==
    /\ calls < limit
    /\ direct < MaxDirect
    /\ player_name \in DOMAIN players
    /\ LET g == lose_game(Game(players, game_board), player_name)
       IN  /\ players' = g.players
           /\ game_board' = g.game_board
           /\ last' = Call("lose_game", player_name, 0, FALSE, "", g)
    /\ calls' = calls + 1
    /\ direct' = direct + 1
    /\ UNCHANGED <<order, limit>>

CheckGameOver ==
    /\ calls < limit
    /\ last' = Call("check_game_over", None_, 0, FALSE,
                    check_game_over(players, order), Game(players, game_board))
    /\ calls' = calls + 1
    /\ UNCHANGED <<game_board, players, order, direct, limit>>

Next ==
    \/ \E go_money \in GoMoneys, rent_list \in RentLists :
           CreateSpaces(go_money, rent_list)
    \/ \E player_name \in Names, bal \in StartBalances :
           CreatePlayer(player_name, bal)
    \/ \E player_name \in Names : BuySpace(player_name)
    \/ \E player_name \in Names, n \in Moves :
           MovePlayer(player_name, n)
    \/ \E player_name \in Names, n \in Moves : Movement(player_name, n)
    \/ \E player_name \in Names : PassGo(player_name)
    \/ \E player_name \in Names : PayRent(player_name)
    \/ \E player_name \in Names : LoseGame(player_name)
    \/ CheckGameOver

Spec == Init /\ [][Next]_vars

(* The same game with three players and fewer balances and moves *)

Next3 ==
    \/ \E go_money \in GoMoneys, rent_list \in RentLists :
           CreateSpaces(go_money, rent_list)
    \/ \E player_name \in Names3, bal \in StartBalances3 :
           CreatePlayer(player_name, bal)
    \/ \E player_name \in Names3 : BuySpace(player_name)
    \/ \E player_name \in Names3, n \in Moves3 :
           MovePlayer(player_name, n)
    \/ \E player_name \in Names3, n \in Moves3 : Movement(player_name, n)
    \/ \E player_name \in Names3 : PassGo(player_name)
    \/ \E player_name \in Names3 : PayRent(player_name)
    \/ \E player_name \in Names3 : LoseGame(player_name)
    \/ CheckGameOver

Spec3 == Init /\ [][Next3]_vars

(* The same game with one more call, two players and the moves that let a *)
(* player buy space 2 and then land on space 3 of the other player        *)

InitElim ==
    /\ game_board = <<>>
    /\ players = <<>>
    /\ order = <<>>
    /\ calls = 0
    /\ direct = 0
    /\ limit = MaxCallsElim
    /\ last = Call("__init__", None_, 0, FALSE, "", Game(<<>>, <<>>))

NextElim ==
    \/ \E go_money \in GoMoneys, rent_list \in RentLists :
           CreateSpaces(go_money, rent_list)
    \/ \E player_name \in NamesElim, bal \in StartBalancesElim :
           CreatePlayer(player_name, bal)
    \/ \E player_name \in NamesElim : BuySpace(player_name)
    \/ \E player_name \in NamesElim, n \in MovesElim :
           MovePlayer(player_name, n)
    \/ \E player_name \in NamesElim, n \in MovesElim : Movement(player_name, n)
    \/ \E player_name \in NamesElim : PassGo(player_name)
    \/ \E player_name \in NamesElim : PayRent(player_name)
    \/ \E player_name \in NamesElim : LoseGame(player_name)
    \/ CheckGameOver

SpecElim == InitElim /\ [][NextElim]_vars


----------------------------------------------------------------------------
(* Vocabulary of the properties *)

Registered == DOMAIN players

Balance(p) == players[p].balance

Position(p) == get_location(players[p])

Owned(p) == players[p].owned

OwnerOf(i) == SpaceAt(game_board, i).owner

RentOf(i) == SpaceAt(game_board, i).rent

GoPayout == SpaceAt(game_board, 0).rent

Indices == 0..(Len(game_board) - 1)

(* The board is the one of the game: 25 spaces, built by one create_spaces *)
Board25 == Len(game_board) = 25

(* self._game_board[i][i] is a space of the board in this state *)
HasSpace(i) == i < Len(game_board) /\ i <= 24

(* The call made by this step is a move_player of an active player *)
ActiveMove == last'.op = "move_player" /\ Balance(last'.name) # 0

(* Position before the move plus spaces_to_move *)
RawTarget == Position(last'.name) + last'.n

(* The move of this step takes the wraparound branch of the board it is on *)
Wraps == Len(game_board) > 0 /\ RawTarget >= Len(game_board) - 1

(* The mover's balance once the GO payout of this move, if any, is credited *)
BalanceAfterGo ==
    Balance(last'.name) + (IF RawTarget < 24 THEN 0 ELSE GoPayout)

(* The space the mover stands on when the call returns *)
Landed == get_location(players'[last'.name])

(* p is eliminated by this step: lose_game ran, p's list is empty and every *)
(* space p owned has no owner                                               *)
EliminatedNow(p) ==
    /\ last'.lost
    /\ players'[p].owned = <<>>
    /\ \A i \in Range(Owned(p)) : SpaceAt(game_board', i).owner = None_

(* This step leaves p's balance, position and owned list as they are *)
Untouched(p) ==
    /\ players'[p].balance = Balance(p)
    /\ get_location(players'[p]) = Position(p)
    /\ players'[p].owned = Owned(p)

(* Sum of the balances, in ps, of the players in S *)
RECURSIVE SumOfBalances(_, _)
SumOfBalances(ps, S) ==
    IF S = {}
    THEN 0
    ELSE LET p == CHOOSE x \in S : TRUE
         IN  ps[p].balance + SumOfBalances(ps, S \ {p})

----------------------------------------------------------------------------
(* C1: buy_space(p) returns True if and only if p's balance is nonzero,    *)
(* p's space is not GO (index 0), the space has no owner and p's balance   *)
(* is strictly greater than 5 x rent; on success the balance decreases by  *)
(* exactly that price, the space's index is appended to p's owned list and *)
(* the space's owner becomes p.  (A call whose space lookup raises does    *)
(* not return True: p has no current space then.)                          *)
C1_BuySpaceContract ==
    [][last'.op = "buy_space" =>
         LET p == last'.name
             pos == Position(p)
             price == 5 * RentOf(pos)
             eligible == /\ HasSpace(pos)
                         /\ Balance(p) # 0
                         /\ pos # 0
                         /\ OwnerOf(pos) = None_
                         /\ Balance(p) > price
         IN  /\ last'.ret <=> eligible
             /\ last'.ret =>
                  /\ last'.raised = ""
                  /\ players'[p].balance = Balance(p) - price
                  /\ players'[p].owned = Append(Owned(p), pos)
                  /\ SpaceAt(game_board', pos).owner = p]_vars

(* C1 witness: a purchase succeeded with balance = price + 1 (1 is left) *)
C1_Witness ==
    /\ last.op = "buy_space"
    /\ last.ret
    /\ Balance(last.name) = 1
    /\ OwnerOf(Position(last.name)) = last.name

(* C2: whenever buy_space returns False, every player's balance, position  *)
(* and owned list and every space's owner are the same as before the call. *)
C2_BuyFailureNoMutation ==
    [][(last'.op = "buy_space" /\ ~last'.ret) =>
         /\ players' = players
         /\ game_board' = game_board
         /\ order' = order]_vars

(* C2 witness: an active player on an unowned space other than GO was      *)
(* refused with balance equal to the purchase price                        *)
C2_Witness ==
    /\ last.op = "buy_space"
    /\ ~last.ret
    /\ last.raised = ""
    /\ Position(last.name) # 0
    /\ OwnerOf(Position(last.name)) = None_
    /\ Balance(last.name) = 5 * RentOf(Position(last.name))

(* C3: when move_player lands p on a space owned by a different player q:  *)
(* if rent < p's balance (after the GO payout of this move) p pays exactly *)
(* rent to q; otherwise p's balance becomes 0, q receives p's whole        *)
(* balance and p is eliminated.  On a space without owner no balance       *)
(* changes from rent.  (Board of 25 spaces.)                               *)
C3_RentSettlement ==
    [][(Board25 /\ ActiveMove) =>
         LET p == last'.name
             q == OwnerOf(Landed)
             rent == RentOf(Landed)
             b == BalanceAfterGo
         IN  /\ q = None_ =>
                  /\ players'[p].balance = b
                  /\ \A o \in Registered \ {p} :
                         players'[o].balance = Balance(o)
             /\ (q # None_ /\ q # p) =>
                  IF rent < b
                  THEN /\ players'[p].balance = b - rent
                       /\ players'[q].balance = Balance(q) + rent
                  ELSE /\ players'[p].balance = 0
                       /\ players'[q].balance = Balance(q) + b
                       /\ EliminatedNow(p)]_vars

(* C4: check_game_over returns the name of the one player with nonzero     *)
(* balance if and only if exactly one registered player has a nonzero      *)
(* balance; in every other state it returns the empty string.              *)
C4_WinnerIffOneActive ==
    last.op = "check_game_over" =>
        LET active == {p \in Registered : Balance(p) # 0}
        IN  IF Cardinality(active) = 1
            THEN \E p \in active : last.winner = p
            ELSE last.winner = ""

(* C5: for an active player on the board of 25 spaces, with                *)
(* raw = position + spaces_to_move: if raw < 24 the new position is raw    *)
(* and no GO payout is credited; otherwise the new position is raw mod 25  *)
(* and the GO payout is credited exactly once (seen in the balance when no *)
(* rent is due: the landed space has no owner, or movement was called on   *)
(* its own).                                                               *)
C5_MovementAndGoPayout ==
    [][(/\ Board25
        /\ last'.op \in {"move_player", "movement"}
        /\ Balance(last'.name) # 0) =>
         LET p == last'.name
             credit == IF RawTarget < 24 THEN 0 ELSE GoPayout
         IN  /\ last'.raised = ""
             /\ RawTarget < 24 => /\ players'[p].location = RawTarget
                                  /\ last'.go = 0
             /\ RawTarget >= 24 => /\ players'[p].location = RawTarget % 25
                                   /\ last'.go = 1
             /\ (last'.op = "movement" \/ OwnerOf(Landed) = None_) =>
                    players'[p].balance = Balance(p) + credit]_vars

(* C5 witness: a move_player of two laps (raw >= 50) that ends on an index *)
(* other than 0 credited the GO payout once                                *)
C5_Witness ==
    /\ Board25
    /\ last.op = "move_player"
    /\ last.n = 50
    /\ last.go = 1
    /\ Position(last.name) # 0

(* C6: a space's owner changes only from none to p by a successful         *)
(* buy_space(p), or from p to none by an elimination of p in which p's     *)
(* balance is 0 when the call returns.  (Stated of every call but          *)
(* lose_game called on its own, which is the elimination without its       *)
(* cause.)                                                                 *)
C6_OwnershipTransitions ==
    [][\A i \in Indices :
          (/\ last'.op # "lose_game"
           /\ SpaceAt(game_board', i).owner # OwnerOf(i)) =>
             \/ /\ OwnerOf(i) = None_
                /\ last'.op = "buy_space"
                /\ last'.ret
                /\ SpaceAt(game_board', i).owner = last'.name
             \/ /\ OwnerOf(i) # None_
                /\ SpaceAt(game_board', i).owner = None_
                /\ last'.lost
                /\ last'.name = OwnerOf(i)
                /\ players'[OwnerOf(i)].balance = 0]_vars

C8_BalancesNeverNegative ==
    /\ [](\A p \in Registered : Balance(p) >= 0)
    /\ [][(Board25 /\ ActiveMove /\ last'.paid # -1) =>
            LET p == last'.name
                due == Min(RentOf(Landed), BalanceAfterGo)
            IN  /\ last'.paid = due
                /\ OwnerOf(Landed) # p =>
                       players'[p].balance = BalanceAfterGo - due]_vars
    /\ [][(last'.op = "pay_rent" /\ last'.paid # -1) =>
            LET p == last'.name
                due == Min(RentOf(Position(p)), Balance(p))
            IN  /\ last'.paid = due
                /\ OwnerOf(Position(p)) # p =>
                       players'[p].balance = Balance(p) - due]_vars

(* C8 witness: a payer whose balance was below the rent paid all of it and *)
(* stands at 0                                                             *)
C8_Witness ==
    /\ last.op = "move_player"
    /\ last.lost
    /\ last.paid >= 1
    /\ last.paid < RentOf(Position(last.name))
    /\ Balance(last.name) = 0

(* C9: when a player is eliminated, every space the player owned has no    *)
(* owner afterwards and the player's owned list is empty; in every         *)
(* reachable state a player with balance 0 owns no space and no space      *)
(* names as owner a player with balance 0.                                 *)
C9_EliminationReleasesSpaces ==
    /\ [](\A p \in Registered :
             Balance(p) = 0 =>
                /\ Owned(p) = <<>>
                /\ \A i \in Indices : OwnerOf(i) # p)
    /\ [][last'.lost => EliminatedNow(last'.name)]_vars

(* C9 witness: a player who owned a space landed on a space of another    *)
(* player with a balance not above the rent: the player paid all of it,    *)
(* stands at balance 0, and lose_game released the space the player owned  *)
C9_Witness ==
    /\ last.op = "move_player"
    /\ last.lost
    /\ last.paid >= 1
    /\ last.released >= 1
    /\ Balance(last.name) = 0
    /\ OwnerOf(Position(last.name)) \notin {None_, last.name}
    /\ Balance(OwnerOf(Position(last.name))) > 0
    /\ Owned(last.name) = <<>>
    /\ \A i \in Indices : OwnerOf(i) # last.name

(* C10: no GO space (index 0) ever has an owner and GO is in no player's   *)
(* owned list; buy_space never succeeds for a player standing on index 0.  *)
C10_GoNeverOwned ==
    /\ \A i \in Indices :
          SpaceAt(game_board, i).name = GO_NAME => OwnerOf(i) = None_
    /\ \A p \in Registered : Range(Owned(p)) \cap {0, GO_NAME} = {}
    /\ (last.op = "buy_space" /\ Position(last.name) = 0) => ~last.ret

(* C10 witness: a player who came back to index 0 by wraparound, with a    *)
(* balance above 5 x the GO amount, called buy_space and was refused       *)
C10_Witness ==
    /\ last.op = "buy_space"
    /\ last.raised = ""
    /\ players[last.name].location = 0
    /\ Balance(last.name) > 5 * GoPayout

(* C11: create_player with a name that is already registered does not     *)
(* raise and leaves the game state unchanged: the existing player's        *)
(* balance, position and owned list are kept and the number of registered  *)
(* players does not change.                                                *)
C11_DuplicateNameIsNoOp ==
    [][(last'.op = "create_player" /\ last'.name \in Registered) =>
         /\ last'.raised = ""
         /\ players' = players
         /\ order' = order
         /\ game_board' = game_board
         /\ Cardinality(DOMAIN players') = Cardinality(Registered)]_vars

(* C11 witness: create_player was called with the name of a player who     *)
(* owns a space                                                            *)
C11_Witness ==
    /\ last.op = "create_player"
    /\ last.name \in Registered
    /\ Owned(last.name) # <<>>

(* C12: a player who lands on a space they own themselves pays no rent and *)
(* is not eliminated: apart from the GO payout of the move the balance is  *)
(* unchanged and the player still owns exactly the same spaces.            *)
C12_OwnSpaceNoRent ==
    [][(Board25 /\ ActiveMove /\ OwnerOf(Landed) = last'.name) =>
         LET p == last'.name
         IN  /\ players'[p].balance = BalanceAfterGo
             /\ players'[p].owned = Owned(p)
             /\ \A i \in Indices :
                    SpaceAt(game_board', i).owner = OwnerOf(i)]_vars

(* C13: move_player credits the GO amount if the player passes or lands on *)
(* GO (the move wraps past index 24: raw >= 25), and a move that ends on   *)
(* an index 1..24 without wrapping credits no GO amount.                   *)
C13_GoOnlyWhenPassingGo ==
    [][(Board25 /\ ActiveMove) =>
           (last'.go >= 1 <=> RawTarget >= 25)]_vars

(* C14: the GO payout of a move is credited before its rent is settled: a  *)
(* player whose balance before the move is <= rent and whose balance plus  *)
(* GO payout is > rent pays the full rent and is not eliminated when the   *)
(* move wraps onto another player's space.                                 *)
C14_GoBeforeRent ==
    [][(Board25 /\ ActiveMove) =>
         LET p == last'.name
             q == OwnerOf(Landed)
             rent == RentOf(Landed)
         IN  (/\ RawTarget >= 24
              /\ q # None_
              /\ q # p
              /\ Balance(p) <= rent
              /\ Balance(p) + GoPayout > rent) =>
                 /\ ~last'.lost
                 /\ players'[p].balance = Balance(p) + GoPayout - rent
                 /\ players'[q].balance = Balance(q) + rent
                 /\ players'[p].owned = Owned(p)]_vars

(* C15: with a board of 25 spaces every player's position is an integer in *)
(* 0..24 in every reachable state, so the space lookup of buy_space,       *)
(* pay_rent and move_player is defined (no call raises), and a new player  *)
(* starts at position 0.                                                   *)
C15_PositionOnBoard ==
    /\ [](Board25 => \A p \in Registered : Position(p) \in 0..24)
    /\ [][Board25 => last'.raised = ""]_vars
    /\ [][(last'.op = "create_player" /\ last'.name \notin Registered) =>
            get_location(players'[last'.name]) = 0]_vars

(* C15 witness: on the board of 25 spaces buy_space looked up the space of *)
(* a player standing on the last index, 24                                 *)
C15_Witness ==
    /\ Board25
    /\ last.op = "buy_space"
    /\ last.raised = ""
    /\ Position(last.name) = 24

(* C16: move_player(p, n) changes at most p's position, p's balance, p's   *)
(* owned spaces (only when lose_game ran) and the balance of the owner of  *)
(* the space p lands on; every other player's balance, position and owned  *)
(* list and the owner of every space not owned by p are unchanged.         *)
(* buy_space(p) changes no position and no other player's balance or       *)
(* owned list.                                                             *)
C16_FrameOfMoveAndBuy ==
    [][/\ last'.op = "move_player" =>
            LET p == last'.name
            IN  /\ \A o \in Registered \ {p} :
                      /\ players'[o].location = players[o].location
                      /\ players'[o].owned = Owned(o)
                      /\ (last'.paid = -1 \/ o # OwnerOf(Landed)) =>
                             players'[o].balance = Balance(o)
                /\ \A i \in Indices :
                      OwnerOf(i) # p => SpaceAt(game_board', i).owner = OwnerOf(i)
                /\ players'[p].owned # Owned(p) => last'.lost
                /\ DOMAIN players' = Registered
       /\ last'.op = "buy_space" =>
            LET p == last'.name
            IN  /\ \A o \in Registered :
                      players'[o].location = players[o].location
                /\ \A o \in Registered \ {p} :
                      /\ players'[o].balance = Balance(o)
                      /\ players'[o].owned = Owned(o)
                /\ DOMAIN players' = Registered]_vars

(* C16 witness: with three registered players, a move ended in the         *)
(* elimination of the mover, who paid the owner of the landed space        *)
C16_Witness ==
    /\ last.op = "move_player"
    /\ last.lost
    /\ last.paid >= 1
    /\ Cardinality(Registered) = 3
    /\ OwnerOf(Position(last.name)) \notin {None_, last.name}

(* C17: the two ownership records agree: space s names p as owner if and   *)
(* only if s is in p's owned list; no index is twice in one list or in the *)
(* lists of two players.                                                   *)
C17_OwnershipRecordsAgree ==
    /\ \A i \in Indices : \A p \in Registered :
          OwnerOf(i) = p <=> i \in Range(Owned(p))
    /\ \A i \in Indices : OwnerOf(i) \in Registered \cup {None_}
    /\ \A p \in Registered :
          /\ Range(Owned(p)) \subseteq Indices
          /\ Cardinality(Range(Owned(p))) = Len(Owned(p))
    /\ \A p \in Registered : \A o \in Registered \ {p} :
          Range(Owned(p)) \cap Range(Owned(o)) = {}

(* C17 witness: two different players each own a space *)
C17_Witness ==
    \E p \in Registered : \E o \in Registered \ {p} :
        Owned(p) # <<>> /\ Owned(o) # <<>>

(* C18: with a fixed set of registered players, once check_game_over       *)
(* returns a non-empty name W, it returns W after every further            *)
(* move_player and buy_space call.                                         *)
C18_WinnerIsStable ==
    [][LET W == check_game_over(players, order)
       IN  (/\ last'.op \in {"move_player", "buy_space"}
            /\ order' = order
            /\ W # ""
            /\ W # None_) =>
               check_game_over(players', order') = W]_vars

(* C19 as claimed: the sum of all players' balances increases by exactly  *)
(* the GO payout in a move_player call that wraps, decreases by exactly    *)
(* the purchase price in a successful buy_space, and changes in no other   *)
(* way.                                                                    *)
C19_MoneyConservation ==
    [][LET before == SumOfBalances(players, Registered)
           after == SumOfBalances(players', DOMAIN players')
           p == last'.name
       IN  IF ActiveMove /\ Wraps
           THEN after = before + GoPayout
           ELSE IF last'.op = "buy_space" /\ last'.ret
                THEN after = before - 5 * RentOf(Position(p))
                ELSE after = before]_vars

(* C19 amended: the sum of all players' balances is unchanged by rent      *)
(* settlement (elimination included), increases by exactly the GO payout   *)
(* in every call that runs pass_go (a move_player or movement call that    *)
(* wraps, or pass_go called on its own), increases by exactly the starting *)
(* balance when create_player registers a new player, decreases by exactly *)
(* the purchase price in a successful buy_space, and changes in no other   *)
(* way.                                                                    *)
C19_MoneyFromPassGoAndCreatePlayer ==
    [][LET before == SumOfBalances(players, Registered)
           after == SumOfBalances(players', DOMAIN players')
           p == last'.name
           credited == \/ ActiveMove /\ Wraps
                       \/ last'.op = "movement" /\ Wraps
                       \/ last'.op = "pass_go" /\ Len(game_board) > 0
           registered == last'.op = "create_player" /\ p \notin Registered
       IN  /\ credited <=> last'.go = 1
           /\ IF credited
              THEN after = before + GoPayout
              ELSE IF last'.op = "buy_space" /\ last'.ret
                   THEN after = before - 5 * RentOf(Position(p))
                   ELSE IF registered
                        THEN after = before + last'.n
                        ELSE after = before]_vars

(* C19 witness: one move_player wrapped (GO payout credited) and paid rent *)
(* to the owner of the landed space                                        *)
C19_Witness ==
    /\ last.op = "move_player"
    /\ last.go = 1
    /\ last.paid >= 1
    /\ OwnerOf(Position(last.name)) \notin {None_, last.name}

====
